---- MODULE Spec2Model ----
(***************************************************************************)
(* A model of train.py: a straight-line script that loads sample.csv with  *)
(* pandas, expands the columns 'value' and 'age' into degree-2 polynomial  *)
(* features, fits an ordinary least-squares regression against the column  *)
(* 'name', predicts on the training matrix and prints the coefficients and *)
(* the intercept.                                                          *)
(*                                                                         *)
(* Numbers are exact: the cells of the file are integers and the fitted    *)
(* parameters are rationals <<numerator, denominator>> in lowest terms.    *)
(* The least-squares solve is the minimum-norm solution of the centred     *)
(* problem, which is what LinearRegression.fit returns up to floating-     *)
(* point rounding.                                                         *)
(***************************************************************************)
EXTENDS Integers, Sequences, FiniteSets, TLC

\* The largest number of data rows of sample.csv that is explored.
MaxRows == 3

None == <<>>
Some(v) == <<v>>

Ok(v) == [ok |-> TRUE, val |-> <<v>>, err |-> ""]
Err(e) == [ok |-> FALSE, val |-> <<>>, err |-> e]

(***************************************************************************)
(* Integer and rational arithmetic.                                        *)
(***************************************************************************)
Abs(n) == IF n < 0 THEN -n ELSE n

Min(S) == CHOOSE m \in S : \A k \in S : m <= k

RECURSIVE GCD(_, _)
GCD(a, b) == IF b = 0 THEN a ELSE GCD(b, a % b)

RECURSIVE SumSeq(_)
SumSeq(s) == IF s = <<>> THEN 0 ELSE s[1] + SumSeq(Tail(s))

RECURSIVE MaxSeq(_)
MaxSeq(s) ==
    IF Len(s) = 1 THEN s[1]
    ELSE LET m == MaxSeq(Tail(s)) IN IF s[1] > m THEN s[1] ELSE m

\* A function over 1..n as a tuple.
Vec(f) == f \o <<>>

Dot(a, b) == SumSeq(Vec([i \in 1..Len(a) |-> a[i] * b[i]]))

\* n/d in lowest terms with a positive denominator.
Rat(n, d) ==
    LET g == GCD(Abs(n), Abs(d))
        s == IF d < 0 THEN -1 ELSE 1
    IN  <<(s * n) \div g, (s * d) \div g>>

RatInt(k) == <<k, 1>>

RatAdd(a, b) ==
    LET g == GCD(a[2], b[2])
    IN  Rat(a[1] * (b[2] \div g) + b[1] * (a[2] \div g), (a[2] \div g) * b[2])

RatScale(k, a) ==
    LET g == GCD(Abs(k), a[2])
    IN  Rat((k \div g) * a[1], a[2] \div g)

RatDivInt(a, k) ==
    LET g == GCD(Abs(a[1]), k)
    IN  Rat(a[1] \div g, a[2] * (k \div g))

RatLess(a, b) == a[1] * b[2] < b[1] * a[2]

RatAbs(a) == <<Abs(a[1]), a[2]>>

RECURSIVE RatSum(_)
RatSum(s) == IF s = <<>> THEN RatInt(0) ELSE RatAdd(s[1], RatSum(Tail(s)))

\* sum_k ints[k] * rats[k]
RatDot(ints, rats) ==
    RatSum(Vec([k \in 1..Len(ints) |-> RatScale(ints[k], rats[k])]))

(***************************************************************************)
(* The input file.  A cell is an integer, a piece of text that is not a    *)
(* number, or an empty field (which pandas reads as NaN).                  *)
(***************************************************************************)
Int_(k) == [t |-> "int", v |-> k]
Text == [t |-> "str", v |-> 0]
NaN == [t |-> "nan", v |-> 0]

IsNumber(c) == c.t = "int"

AllColumns == {"value", "age", "name", "other"}

MkRow(v, a, n, o) == [value |-> v, age |-> a, name |-> n, other |-> o]

\* The rows a file is made of: numeric rows, and rows with a cell that is
\* not a number.
RowPool ==
    { MkRow(Int_(1), Int_(0), Int_(31), Int_(0)),
      MkRow(Int_(1), Int_(1), Int_(0), Int_(0)),
      MkRow(Int_(1), Int_(1), Int_(1), Int_(1)),
      MkRow(Int_(2), Int_(1), Int_(1), Int_(0)),
      MkRow(Text, Int_(0), Int_(1), Int_(0)),
      MkRow(Int_(0), NaN, Int_(0), Int_(1)),
      MkRow(Int_(0), Int_(2), Text, Int_(0)) }

Headers == {AllColumns} \cup {AllColumns \ {c} : c \in AllColumns}

Restrict(row, cols) == [c \in cols |-> row[c]]

RowSeqs == UNION {[1..n -> RowPool] : n \in 0..MaxRows}

Table(cols, rows) ==
    [exists |-> TRUE, ragged |-> FALSE, cols |-> cols,
     rows |-> [i \in 1..Len(rows) |-> Restrict(rows[i], cols)]]

\* No such file; a file of zero bytes; a file with a line that has more
\* fields than the header.
AbsentFile == [exists |-> FALSE, ragged |-> FALSE, cols |-> {}, rows |-> <<>>]
EmptyFile == [exists |-> TRUE, ragged |-> FALSE, cols |-> {}, rows |-> <<>>]
RaggedFile == [exists |-> TRUE, ragged |-> TRUE, cols |-> AllColumns, rows |-> <<>>]

Files ==
    {AbsentFile, EmptyFile, RaggedFile}
        \cup {Table(cols, rows) : cols \in Headers, rows \in RowSeqs}

\* A second file of the working directory, which the script never names.
AltFile == Table(AllColumns, <<MkRow(Int_(0), Int_(1), Int_(5), Int_(0))>>)

Paths == {"sample.csv", "alt.csv"}

Argvs == {<<"train.py">>, <<"train.py", "alt.csv">>}

Environs == {[PYTHONHASHSEED |-> h] : h \in {0, 1}}

(***************************************************************************)
(* pandas                                                                  *)
(***************************************************************************)
\* pd.read_csv(path)
read_csv(files, path) ==
    LET f == files[path]
    IN  IF ~f.exists THEN Err("FileNotFoundError")
        ELSE IF f.cols = {} THEN Err("EmptyDataError")
        ELSE IF f.ragged THEN Err("ParserError")
        ELSE Ok([columns |-> f.cols, rows |-> f.rows])

\* frame[[c1, ..., ck]]: the rows cut to the listed columns, in that order
getitem_list(frame, names) ==
    IF \E k \in 1..Len(names) : names[k] \notin frame.columns
    THEN Err("KeyError")
    ELSE Ok([i \in 1..Len(frame.rows) |->
                [k \in 1..Len(names) |-> frame.rows[i][names[k]]]])

\* frame[c]: one column
getitem(frame, name) ==
    IF name \notin frame.columns
    THEN Err("KeyError")
    ELSE Ok([i \in 1..Len(frame.rows) |-> frame.rows[i][name]])

(***************************************************************************)
(* sklearn.preprocessing.PolynomialFeatures                                *)
(***************************************************************************)
RECURSIVE Concat(_)
Concat(ss) == IF ss = <<>> THEN <<>> ELSE ss[1] \o Concat(Tail(ss))

\* itertools.combinations_with_replacement(range(lo, n), d), in its order
RECURSIVE CombinationsFrom(_, _, _)
CombinationsFrom(lo, n, d) ==
    IF d = 0 THEN << <<>> >>
    ELSE Concat([k \in 1..(n - lo + 1) |->
            LET i == lo + k - 1
                rest == CombinationsFrom(i, n, d - 1)
            IN  [j \in 1..Len(rest) |-> <<i>> \o rest[j]]])

\* The exponent combinations of every degree from 0 (the bias column, when
\* include_bias) to degree.
Combinations(n_features, degree, include_bias) ==
    (IF include_bias THEN CombinationsFrom(1, n_features, 0) ELSE <<>>)
        \o Concat([d \in 1..degree |-> CombinationsFrom(1, n_features, d)])

RECURSIVE Product(_, _)
Product(row, idx) ==
    IF idx = <<>> THEN 1 ELSE row[idx[1]] * Product(row, Tail(idx))

\* The constructor: PolynomialFeatures(degree=2), include_bias by default.
PolynomialFeaturesDegree3 == [degree |-> 3, include_bias |-> TRUE]

PolynomialFeatures == [degree |-> 2, include_bias |-> TRUE]

\* check_array: a matrix of finite numbers with at least one row
ValidMatrix(M) ==
    /\ Len(M) >= 1
    /\ \A i \in 1..Len(M) : \A j \in 1..Len(M[i]) : IsNumber(M[i][j])

\* poly.fit_transform(X)
fit_transform(poly, M) ==
    IF ~ValidMatrix(M) THEN Err("ValueError")
    ELSE LET combos == Combinations(Len(M[1]), poly.degree, poly.include_bias)
         IN  Ok([i \in 1..Len(M) |->
                    LET row == [j \in 1..Len(M[i]) |-> M[i][j].v]
                    IN  [c \in 1..Len(combos) |-> Product(row, combos[c])]])

(***************************************************************************)
(* sklearn.linear_model.LinearRegression                                   *)
(*                                                                         *)
(* fit centres A and b on their column means, takes the minimum-norm       *)
(* least-squares solution w of the centred system and sets                 *)
(* intercept_ = mean(b) - mean(A) . w.  With n rows, M = n*A - 1*colsums'  *)
(* and t = n*b - sum(b) are the centred data scaled by n, and the          *)
(* minimum-norm solution is the one in the row space of M, which the       *)
(* differences D[k] = A[k+1] - A[1] span: w = D' u with                    *)
(* (K' K) u = K' t,  K = M D'.                                             *)
(***************************************************************************)
RECURSIVE GcdSeq(_)
GcdSeq(s) == IF s = <<>> THEN 0 ELSE GCD(Abs(s[1]), GcdSeq(Tail(s)))

\* A row of an integer system divided by the gcd of its entries.
NormRow(r) ==
    LET g == GcdSeq(r)
    IN  IF g = 0 THEN r ELSE Vec([j \in 1..Len(r) |-> r[j] \div g])

\* Row r with its entry in column c cancelled against the pivot row p.
Reduce(r, p, c) ==
    LET g == GCD(Abs(p[c]), Abs(r[c]))
        a == p[c] \div g
        b == r[c] \div g
    IN  NormRow(Vec([j \in 1..Len(r) |-> a * r[j] - b * p[j]]))

\* Gauss-Jordan elimination of the augmented rows, column by column; piv[c]
\* is the pivot row of column c, or 0 when the column has none.
RECURSIVE Eliminate(_, _, _, _)
Eliminate(rows, c, used, piv) ==
    IF c > Len(rows) THEN [rows |-> rows, piv |-> piv]
    ELSE LET cand == {i \in 1..Len(rows) : i \notin used /\ rows[i][c] # 0}
         IN  IF cand = {} THEN Eliminate(rows, c + 1, used, Append(piv, 0))
             ELSE LET p == Min(cand)
                      next == Vec([i \in 1..Len(rows) |->
                                 IF i = p \/ rows[i][c] = 0 THEN rows[i]
                                 ELSE Reduce(rows[i], rows[p], c)])
                  IN  Eliminate(next, c + 1, used \cup {p}, Append(piv, p))

\* A solution of the consistent square system S u = r, free unknowns 0.
Solve(S, r) ==
    LET m == Len(S)
        aug == Vec([i \in 1..m |-> NormRow(Append(S[i], r[i]))])
        e == Eliminate(aug, 1, {}, <<>>)
    IN  Vec([c \in 1..m |->
            IF e.piv[c] = 0 THEN RatInt(0)
            ELSE Rat(e.rows[e.piv[c]][m + 1], e.rows[e.piv[c]][c])])

ColumnSums(A) ==
    Vec([j \in 1..Len(A[1]) |-> SumSeq(Vec([i \in 1..Len(A) |-> A[i][j]]))])

\* The constructor: LinearRegression(), not fitted yet.
LinearRegression == [fitted |-> FALSE, coef_ |-> <<>>, intercept_ |-> RatInt(0)]

\* check_X_y: the target is a vector of finite numbers
ValidTarget(b) == \A i \in 1..Len(b) : IsNumber(b[i])

\* The minimum-norm least-squares fit of b ~ A w + intercept.
LeastSquares(A, b) ==
    LET n == Len(A)
        p == Len(A[1])
        s == ColumnSums(A)
        sb == SumSeq(b)
        M == Vec([i \in 1..n |-> Vec([j \in 1..p |-> n * A[i][j] - s[j]])])
        t == Vec([i \in 1..n |-> n * b[i] - sb])
        D == Vec([k \in 1..(n - 1) |-> Vec([j \in 1..p |-> A[k + 1][j] - A[1][j]])])
        K == Vec([i \in 1..n |-> Vec([k \in 1..(n - 1) |-> Dot(M[i], D[k])])])
        Kcol(k) == Vec([i \in 1..n |-> K[i][k]])
        S == Vec([a \in 1..(n - 1) |-> Vec([c \in 1..(n - 1) |-> Dot(Kcol(a), Kcol(c))])])
        r == Vec([a \in 1..(n - 1) |-> Dot(Kcol(a), t)])
        u == Solve(S, r)
        w == Vec([j \in 1..p |-> RatDot(Vec([k \in 1..(n - 1) |-> D[k][j]]), u)])
    IN  [fitted |-> TRUE,
         coef_ |-> w,
         intercept_ |-> RatDivInt(RatAdd(RatInt(sb), RatScale(-1, RatDot(s, w))), n)]

\* model.fit(A, b)
fit(A, b) ==
    IF ~ValidTarget(b) \/ Len(b) # Len(A) THEN Err("ValueError")
    ELSE Ok(LeastSquares(A, Vec([i \in 1..Len(b) |-> b[i].v])))

\* model.predict(A): A . coef_ + intercept_
predict(m, A) ==
    Vec([i \in 1..Len(A) |-> RatAdd(RatDot(A[i], m.coef_), m.intercept_)])

(***************************************************************************)
(* print and numpy's text of an array.                                     *)
(*                                                                         *)
(* str(array) gives every element the same width and starts a new line     *)
(* before an element that would pass the line width.  A line of standard   *)
(* output is [label, vals]: the text before the numbers and the numbers on *)
(* that line; a continuation line of a wrapped array has the label "".     *)
(***************************************************************************)
\* numpy's print options: precision and linewidth.
Precision == 8
LineWidth == 75

RECURSIVE Pow10(_)
Pow10(k) == IF k = 0 THEN 1 ELSE 10 * Pow10(k - 1)

RECURSIVE Digits(_)
Digits(n) == IF n < 10 THEN 1 ELSE 1 + Digits(n \div 10)

\* k more decimal digits of rem/q appended to acc: <<digits, remainder>>
RECURSIVE LongDivide(_, _, _, _)
LongDivide(acc, rem, q, k) ==
    IF k = 0 THEN <<acc, rem>>
    ELSE LongDivide(acc * 10 + (rem * 10) \div q, (rem * 10) % q, q, k - 1)

\* The number of fractional digits left of fd once trailing zeros are cut.
RECURSIVE TrimZeros(_, _)
TrimZeros(acc, fd) ==
    IF fd = 0 \/ acc % 10 # 0 THEN fd ELSE TrimZeros(acc \div 10, fd - 1)

\* x rounded to Precision fractional digits, trailing zeros cut:
\* <<length of the integer part with its sign, number of fractional digits>>
PositionalParts(x) ==
    LET a == Abs(x[1])
        q == x[2]
        d == LongDivide(0, a % q, q, Precision)
        up == 2 * d[2] > q \/ (2 * d[2] = q /\ d[1] % 2 = 1)
        acc == IF up THEN d[1] + 1 ELSE d[1]
        carry == acc = Pow10(Precision)
        ip == a \div q + (IF carry THEN 1 ELSE 0)
    IN  <<Digits(ip) + (IF x[1] < 0 THEN 1 ELSE 0),
          IF carry THEN 0 ELSE TrimZeros(acc, Precision)>>

\* a > 0 as <<mantissa in [1, 10), decimal exponent>>
RECURSIVE Normalise(_, _)
Normalise(a, e) ==
    IF ~RatLess(a, RatInt(10)) THEN Normalise(Rat(a[1], a[2] * 10), e + 1)
    ELSE IF RatLess(a, RatInt(1)) THEN Normalise(Rat(a[1] * 10, a[2]), e - 1)
    ELSE <<a, e>>

\* x in scientific notation: <<length of the integer part with its sign,
\* number of fractional digits of the mantissa, digits of the exponent>>
ScientificParts(x) ==
    IF x[1] = 0 THEN <<1, 0, 2>>
    ELSE LET n == Normalise(RatAbs(x), 0)
             pp == PositionalParts(n[1])
             e == IF pp[1] = 2 THEN n[2] + 1 ELSE n[2]
             ed == Digits(Abs(e))
         IN  <<1 + (IF x[1] < 0 THEN 1 ELSE 0),
               IF pp[1] = 2 THEN 0 ELSE pp[2],
               IF ed < 2 THEN 2 ELSE ed>>

\* a > k and a >= k, for a rational a >= 0 and an integer k >= 0
RatExceeds(a, k) ==
    \/ a[1] \div a[2] > k
    \/ a[1] \div a[2] = k /\ a[1] % a[2] # 0

RatAtLeast(a, k) == a[1] \div a[2] >= k

\* a / b for b # 0
RatDiv(a, b) ==
    LET g == GCD(Abs(a[1]), Abs(b[1]))
        h == GCD(a[2], b[2])
    IN  Rat((a[1] \div g) * (b[2] \div h), (a[2] \div h) * (b[1] \div g))

\* Whether the array is printed in scientific notation: some element is at
\* least 1e8, or below 1e-4, or the nonzero elements span more than 1e3.
ExpFormat(vals) ==
    LET nz == {k \in 1..Len(vals) : vals[k][1] # 0}
    IN  /\ nz # {}
        /\ LET hi == CHOOSE k \in nz :
                        \A l \in nz : ~RatLess(RatAbs(vals[k]), RatAbs(vals[l]))
               lo == CHOOSE k \in nz :
                        \A l \in nz : ~RatLess(RatAbs(vals[l]), RatAbs(vals[k]))
           IN  \/ RatAtLeast(RatAbs(vals[hi]), Pow10(8))
               \/ RatExceeds(RatDiv(RatInt(1), RatAbs(vals[lo])), Pow10(4))
               \/ RatExceeds(RatDiv(RatAbs(vals[hi]), RatAbs(vals[lo])), Pow10(3))

\* The width every element of the array is printed with.
ElementWidth(vals) ==
    IF ExpFormat(vals)
    THEN LET sp == Vec([k \in 1..Len(vals) |-> ScientificParts(vals[k])])
         IN  MaxSeq(Vec([k \in 1..Len(sp) |-> sp[k][1]])) + 1
               + MaxSeq(Vec([k \in 1..Len(sp) |-> sp[k][2]])) + 2
               + MaxSeq(Vec([k \in 1..Len(sp) |-> sp[k][3]]))
    ELSE LET pp == Vec([k \in 1..Len(vals) |-> PositionalParts(vals[k])])
         IN  MaxSeq(Vec([k \in 1..Len(pp) |-> pp[k][1]])) + 1
               + MaxSeq(Vec([k \in 1..Len(pp) |-> pp[k][2]]))

\* The elements line by line: an element that would pass the line width
\* starts a new line, unless the line holds nothing yet.
RECURSIVE ExtendLines(_, _, _, _, _)
ExtendLines(rest, w, cur, len, out) ==
    IF rest = <<>> THEN Append(out, cur)
    ELSE LET needs_wrap == len + w > LineWidth - 1 /\ len > 1
             sep == IF Len(rest) > 1 THEN 1 ELSE 0
         IN  ExtendLines(Tail(rest), w,
                         Append(IF needs_wrap THEN <<>> ELSE cur, rest[1]),
                         (IF needs_wrap THEN 1 ELSE len) + w + sep,
                         IF needs_wrap THEN Append(out, cur) ELSE out)

\* str(array): the groups of elements, one group per line of text
array_str(vals) == ExtendLines(vals, ElementWidth(vals), <<>>, 1, <<>>)

\* str(scalar): one line
scalar_str(x) == << <<x>> >>

\* print(label, text): the lines written to standard output
print(label, groups) ==
    Vec([k \in 1..Len(groups) |->
        [label |-> IF k = 1 THEN label ELSE "", vals |-> groups[k]]])

(***************************************************************************)
(* The script.  fs, argv and environ are the world the process starts in;  *)
(* pc is the line of the statement to run next; data, X, y, poly_features, *)
(* X_poly, model and y_pred are the script's variables (None until         *)
(* assigned); stdout is the text written so far; error is the uncaught     *)
(* exception that ended the run.  trace, fit_args, predict_arg and prev    *)
(* record what happened: the lines executed, the arguments of model.fit    *)
(* and model.predict, and the outcome of the previous run.                 *)
(***************************************************************************)
VARIABLES fs, argv, environ, pc, status, data, X, y, poly_features, X_poly,
          model, y_pred, stdout, error, trace, fit_args, predict_arg, prev

vars == <<fs, argv, environ, pc, status, data, X, y, poly_features, X_poly,
          model, y_pred, stdout, error, trace, fit_args, predict_arg, prev>>

world == <<fs, argv, environ, prev>>

EndOfFile == 26

\* The statement that follows the statement at line l.
NextLineSkipsPredict(l) ==
    CASE l = 6 -> 9 [] l = 9 -> 10 [] l = 10 -> 13 [] l = 13 -> 14
      [] l = 14 -> 17 [] l = 17 -> 18 [] l = 18 -> 24
      [] l = 24 -> 25 [] l = 25 -> EndOfFile

NextLine(l) ==
    CASE l = 6 -> 9 [] l = 9 -> 10 [] l = 10 -> 13 [] l = 13 -> 14
      [] l = 14 -> 17 [] l = 17 -> 18 [] l = 18 -> 21 [] l = 21 -> 24
      [] l = 24 -> 25 [] l = 25 -> EndOfFile

\* The statement at pc returned: go on with the next one, or end the run.
Advance ==
    /\ pc' = NextLine(pc)
    /\ status' = IF NextLine(pc) = EndOfFile THEN "done" ELSE "running"
    /\ trace' = Append(trace, pc)
    /\ error' = error

\* The statement at pc raised e, which nothing catches: the run ends there.
Raise(e) ==
    /\ pc' = pc
    /\ status' = "aborted"
    /\ trace' = Append(trace, pc)
    /\ error' = Some([line |-> pc, type |-> e])

\* The file the script opens.
InputPathFromArgv == IF Len(argv) > 1 THEN argv[2] ELSE "sample.csv"

InputPath == "sample.csv"

\* The columns of the feature matrix and of the target.
FeatureColumnsInSetOrder ==
    IF environ.PYTHONHASHSEED = 0 THEN <<"value", "age">> ELSE <<"age", "value">>

FeatureColumnsWithOther == <<"value", "other">>

FeatureColumns == <<"value", "age">>

TargetColumn == "name"

Init ==
    /\ fs \in {[p \in Paths |-> IF p = "sample.csv" THEN f ELSE AltFile] : f \in Files}
    /\ argv \in Argvs
    /\ environ \in Environs
    /\ pc = 6
    /\ status = "running"
    /\ data = None /\ X = None /\ y = None /\ poly_features = None
    /\ X_poly = None /\ model = None /\ y_pred = None
    /\ stdout = <<>>
    /\ error = None
    /\ trace = <<>>
    /\ fit_args = None
    /\ predict_arg = None
    /\ prev = None

\* line 6: data = pd.read_csv('sample.csv')
LoadCatch ==
    /\ status = "running" /\ pc = 6
    /\ LET r == read_csv(fs, InputPath)
       IN  /\ data' = IF r.ok THEN Some(r.val[1])
                      ELSE Some([columns |-> AllColumns, rows |-> <<>>])
           /\ Advance
    /\ UNCHANGED <<world, X, y, poly_features, X_poly, model, y_pred, stdout,
                   fit_args, predict_arg>>

LoadVerbose ==
    /\ status = "running" /\ pc = 6
    /\ LET r == read_csv(fs, InputPath)
       IN  IF r.ok
           THEN /\ data' = Some(r.val[1])
                /\ stdout' = Append(stdout, [label |-> "Rows:",
                                              vals |-> <<RatInt(Len(r.val[1].rows))>>])
                /\ Advance
           ELSE data' = data /\ stdout' = stdout /\ Raise(r.err)
    /\ UNCHANGED <<world, X, y, poly_features, X_poly, model, y_pred,
                   fit_args, predict_arg>>

Load ==
    /\ status = "running" /\ pc = 6
    /\ LET r == read_csv(fs, InputPath)
       IN  IF r.ok
           THEN data' = Some(r.val[1]) /\ Advance
           ELSE data' = data /\ Raise(r.err)
    /\ UNCHANGED <<world, X, y, poly_features, X_poly, model, y_pred, stdout,
                   fit_args, predict_arg>>

\* line 9: X = data[['value', 'age']]
SelectX ==
    /\ status = "running" /\ pc = 9
    /\ LET r == getitem_list(data[1], FeatureColumns)
       IN  IF r.ok
           THEN X' = Some(r.val[1]) /\ Advance
           ELSE X' = X /\ Raise(r.err)
    /\ UNCHANGED <<world, data, y, poly_features, X_poly, model, y_pred, stdout,
                   fit_args, predict_arg>>

\* line 10: y = data['name']
SelectY ==
    /\ status = "running" /\ pc = 10
    /\ LET r == getitem(data[1], TargetColumn)
       IN  IF r.ok
           THEN y' = Some(r.val[1]) /\ Advance
           ELSE y' = y /\ Raise(r.err)
    /\ UNCHANGED <<world, data, X, poly_features, X_poly, model, y_pred, stdout,
                   fit_args, predict_arg>>

\* line 13: poly_features = PolynomialFeatures(degree=2)
MakePolynomialFeatures ==
    /\ status = "running" /\ pc = 13
    /\ poly_features' = Some(PolynomialFeatures)
    /\ Advance
    /\ UNCHANGED <<world, data, X, y, X_poly, model, y_pred, stdout,
                   fit_args, predict_arg>>

\* line 14: X_poly = poly_features.fit_transform(X)
FitTransform ==
    /\ status = "running" /\ pc = 14
    /\ LET r == fit_transform(poly_features[1], X[1])
       IN  IF r.ok
           THEN X_poly' = Some(r.val[1]) /\ Advance
           ELSE X_poly' = X_poly /\ Raise(r.err)
    /\ UNCHANGED <<world, data, X, y, poly_features, model, y_pred, stdout,
                   fit_args, predict_arg>>

\* line 17: model = LinearRegression()
MakeLinearRegression ==
    /\ status = "running" /\ pc = 17
    /\ model' = Some(LinearRegression)
    /\ Advance
    /\ UNCHANGED <<world, data, X, y, poly_features, X_poly, y_pred, stdout,
                   fit_args, predict_arg>>

\* line 18: model.fit(X_poly, y)
FitOnTrainSplit ==
    /\ status = "running" /\ pc = 18
    /\ LET n == Len(X_poly[1])
           k == IF n > 1 THEN n - 1 ELSE n
           r == fit(SubSeq(X_poly[1], 1, k), SubSeq(y[1], 1, k))
       IN  IF r.ok
           THEN /\ model' = Some(r.val[1])
                /\ fit_args' = Some([A |-> SubSeq(X_poly[1], 1, k),
                                     b |-> SubSeq(y[1], 1, k)])
                /\ Advance
           ELSE model' = model /\ fit_args' = fit_args /\ Raise(r.err)
    /\ UNCHANGED <<world, data, X, y, poly_features, X_poly, y_pred, stdout,
                   predict_arg>>

Fit ==
    /\ status = "running" /\ pc = 18
    /\ LET r == fit(X_poly[1], y[1])
       IN  IF r.ok
           THEN /\ model' = Some(r.val[1])
                /\ fit_args' = Some([A |-> X_poly[1], b |-> y[1]])
                /\ Advance
           ELSE model' = model /\ fit_args' = fit_args /\ Raise(r.err)
    /\ UNCHANGED <<world, data, X, y, poly_features, X_poly, y_pred, stdout,
                   predict_arg>>

\* line 21: y_pred = model.predict(X_poly)
PredictFoldsIntercept ==
    /\ status = "running" /\ pc = 21
    /\ y_pred' = Some(predict(model[1], X_poly[1]))
    /\ model' = Some([model[1] EXCEPT !.intercept_ = RatInt(0)])
    /\ predict_arg' = Some(X_poly[1])
    /\ Advance
    /\ UNCHANGED <<world, data, X, y, poly_features, X_poly, stdout, fit_args>>

Predict ==
    /\ status = "running" /\ pc = 21
    /\ y_pred' = Some(predict(model[1], X_poly[1]))
    /\ predict_arg' = Some(X_poly[1])
    /\ Advance
    /\ UNCHANGED <<world, data, X, y, poly_features, X_poly, model, stdout,
                   fit_args>>

\* line 24: print('Coefficients:', model.coef_)
PrintCoefficientsAndPredictions ==
    /\ status = "running" /\ pc = 24
    /\ stdout' = stdout \o print("Coefficients:", array_str(model[1].coef_))
                        \o print("Predictions:", array_str(y_pred[1]))
    /\ Advance
    /\ UNCHANGED <<world, data, X, y, poly_features, X_poly, model, y_pred,
                   fit_args, predict_arg>>

PrintCoefficients ==
    /\ status = "running" /\ pc = 24
    /\ stdout' = stdout \o print("Coefficients:", array_str(model[1].coef_))
    /\ Advance
    /\ UNCHANGED <<world, data, X, y, poly_features, X_poly, model, y_pred,
                   fit_args, predict_arg>>

\* line 25: print('Intercept:', model.intercept_)
PrintIntercept ==
    /\ status = "running" /\ pc = 25
    /\ stdout' = stdout \o print("Intercept:", scalar_str(model[1].intercept_))
    /\ Advance
    /\ UNCHANGED <<world, data, X, y, poly_features, X_poly, model, y_pred,
                   fit_args, predict_arg>>

\* The script is run again, in a fresh process: nothing of the ended run is
\* left but the files, and the arguments and the environment may differ.
Rerun ==
    /\ status # "running"
    /\ prev' = Some([status |-> status, stdout |-> stdout])
    /\ argv' \in Argvs
    /\ environ' \in Environs
    /\ pc' = 6
    /\ status' = "running"
    /\ data' = None /\ X' = None /\ y' = None /\ poly_features' = None
    /\ X_poly' = None /\ model' = None /\ y_pred' = None
    /\ stdout' = <<>>
    /\ error' = None
    /\ trace' = <<>>
    /\ fit_args' = None
    /\ predict_arg' = None
    /\ UNCHANGED fs

Next ==
    \/ Load
    \/ SelectX
    \/ SelectY
    \/ MakePolynomialFeatures
    \/ FitTransform
    \/ MakeLinearRegression
    \/ Fit
    \/ Predict
    \/ PrintCoefficients
    \/ PrintIntercept
    \/ Rerun

Spec == Init /\ [][Next]_vars

(***************************************************************************)
(* Properties.                                                             *)
(***************************************************************************)
SampleFile == fs["sample.csv"]

SampleRows == SampleFile.rows

ProgramOrder == <<6, 9, 10, 13, 14, 17, 18, 21, 24, 25>>

IsPrefix(s, t) == Len(s) <= Len(t) /\ SubSeq(t, 1, Len(s)) = s

Fitted == model # None /\ model[1].fitted

\* C1: two runs on the same file contents end the same way and print the
\* same text, whatever the arguments, the environment and the earlier run.
C1_Deterministic ==
    (status # "running" /\ prev # None)
        => (status = prev[1].status /\ stdout = prev[1].stdout)

C1_Witness ==
    /\ status = "done"
    /\ prev # None
    /\ Len(stdout) > 2

\* C2, as stated: a successful run has written exactly two lines of text,
\* the coefficients and then the intercept.
C2_ExactlyTwoLines ==
    status = "done"
        => /\ Len(stdout) = 2
           /\ stdout[1].label = "Coefficients:"
           /\ stdout[2].label = "Intercept:"

\* C2, amended: a successful run has written the text of the coefficient
\* array and then one line with the intercept, and nothing else.  The array
\* takes one line when its text fits the line width and wraps onto
\* continuation lines otherwise.
C2_TwoPrints ==
    status = "done"
        => LET n == Len(stdout)
               coef == model[1].coef_
           IN  /\ n >= 2
               /\ stdout[1].label = "Coefficients:"
               /\ \A k \in 2..(n - 1) : stdout[k].label = ""
               /\ Concat([k \in 1..(n - 1) |-> stdout[k].vals]) = coef
               /\ stdout[n] = [label |-> "Intercept:",
                               vals |-> <<model[1].intercept_>>]
               /\ n = 2 <=> Len(coef) * (ElementWidth(coef) + 1) + 1 <= LineWidth

C2_Witness ==
    /\ status = "done"
    /\ prev = None
    /\ Len(stdout) = 3
    /\ stdout[2].label = ""

\* The line of the library call that fails on file f; 0 when none does.
FailingLine(f) ==
    IF ~f.exists \/ f.ragged \/ f.cols = {} THEN 6
    ELSE IF ~({"value", "age"} \subseteq f.cols) THEN 9
    ELSE IF "name" \notin f.cols THEN 10
    ELSE IF \/ f.rows = <<>>
            \/ \E i \in 1..Len(f.rows) :
                 f.rows[i]["value"].t # "int" \/ f.rows[i]["age"].t # "int"
         THEN 14
    ELSE IF \E i \in 1..Len(f.rows) : f.rows[i]["name"].t # "int" THEN 18
    ELSE 0

\* C3: on a missing or malformed file, or one without the column 'value',
\* 'age' or 'name', the run never passes the failing call: it ends there
\* with the error uncaught, nothing later has run, and it does not succeed.
C3_AbortsAtFailingCall ==
    LET l == FailingLine(SampleFile)
    IN  l # 0 =>
          /\ status # "done"
          /\ pc <= l
          /\ IsPrefix(trace, ProgramOrder)
          /\ \A k \in 1..Len(trace) : trace[k] <= l
          /\ status = "aborted" =>
                pc = l /\ error # None /\ error[1].line = l
          /\ l <= 6 => data = None
          /\ l <= 9 => X = None
          /\ l <= 10 => y = None
          /\ l <= 14 => X_poly = None
          /\ ~Fitted /\ fit_args = None
          /\ y_pred = None /\ predict_arg = None
          /\ stdout = <<>>

C3_Witness ==
    /\ status = "aborted"
    /\ pc = 10
    /\ error = Some([line |-> 10, type |-> "KeyError"])
    /\ X # None

\* C4: the statements run in the one order load, select, transform, fit,
\* predict, print, each once, whatever the data.
C4_LinearOrder ==
    /\ IsPrefix(trace, ProgramOrder)
    /\ status = "done" => trace = ProgramOrder
    /\ status = "running" => pc = ProgramOrder[Len(trace) + 1]
    /\ status = "aborted" => pc = trace[Len(trace)]

C4_Witness ==
    /\ status = "done"
    /\ Len(trace) = 10
    /\ Len(SampleRows) > 1

\* C5: no step changes a file, and the frame loaded is that of sample.csv
\* whatever the arguments and the environment.
C5_NoPersistedState ==
    /\ [][fs' = fs]_vars
    /\ [](data # None =>
            data[1] = [columns |-> SampleFile.cols, rows |-> SampleRows])

C5_Witness ==
    /\ status = "done"
    /\ Len(argv) > 1
    /\ environ.PYTHONHASHSEED = 1
    /\ data # None

\* The matrix of the columns 'value' and 'age' and the vector of 'name'.
ValueAge == [i \in 1..Len(SampleRows) |->
                <<SampleRows[i]["value"], SampleRows[i]["age"]>>]

Name == [i \in 1..Len(SampleRows) |-> SampleRows[i]["name"]]

\* C6: the features are the columns 'value' and 'age', the target is the
\* column 'name', and what is printed is the fit of these alone.
C6_FeaturesAndTarget ==
    /\ X # None => X[1] = ValueAge
    /\ y # None => y[1] = Name
    /\ fit_args # None =>
          /\ fit_args[1].b = Name
          /\ fit_args[1].A = fit_transform(PolynomialFeatures, ValueAge).val[1]
    /\ status = "done" =>
          LET m == fit(fit_transform(PolynomialFeatures, ValueAge).val[1], Name).val[1]
          IN  stdout = print("Coefficients:", array_str(m.coef_))
                         \o print("Intercept:", scalar_str(m.intercept_))

C6_Witness ==
    /\ status = "done"
    /\ "other" \in SampleFile.cols
    /\ \E i \in 1..Len(SampleRows) :
          SampleRows[i]["other"] # SampleRows[i]["age"]

\* C7: every feature row is 1, value, age, value^2, value*age, age^2, there
\* is one feature row per data row, and the fitted model has six
\* coefficients and one intercept.
C7_DegreeTwoExpansion ==
    /\ X_poly # None =>
          /\ Len(X_poly[1]) = Len(SampleRows)
          /\ \A i \in 1..Len(SampleRows) :
                LET v == SampleRows[i]["value"].v
                    a == SampleRows[i]["age"].v
                IN  X_poly[1][i] = <<1, v, a, v * v, v * a, a * a>>
    /\ Fitted =>
          /\ Len(model[1].coef_) = 6
          /\ \A k \in 1..6 : Len(model[1].coef_[k]) = 2
          /\ Len(model[1].intercept_) = 2

C7_Witness ==
    /\ status = "done"
    /\ \E i \in 1..Len(SampleRows) : SampleRows[i]["value"].v = 2
    /\ \E k \in 1..6 : model[1].coef_[k][1] # 0

\* C8: every row of the file is fitted, and predict is given the very matrix
\* fit was given.
C8_AllRowsNoSplit ==
    /\ data # None => Len(data[1].rows) = Len(SampleRows)
    /\ X # None => Len(X[1]) = Len(SampleRows)
    /\ y # None => Len(y[1]) = Len(SampleRows)
    /\ fit_args # None =>
          /\ fit_args[1].A = X_poly[1]
          /\ fit_args[1].b = y[1]
          /\ Len(fit_args[1].A) = Len(SampleRows)
    /\ predict_arg # None =>
          /\ predict_arg[1] = fit_args[1].A
          /\ Len(y_pred[1]) = Len(SampleRows)

C8_Witness ==
    /\ status = "done"
    /\ Len(SampleRows) > 1
    /\ predict_arg # None

\* C9: once anything is printed, load, transform, fit and predict have all
\* succeeded; a run that aborts has printed nothing.
C9_AllOrNothing ==
    /\ status = "aborted" => stdout = <<>>
    /\ stdout # <<>> =>
          /\ error = None
          /\ data # None /\ X # None /\ y # None /\ X_poly # None
          /\ Fitted
          /\ y_pred # None
          /\ IsPrefix(<<6, 9, 10, 13, 14, 17, 18, 21>>, trace)

C9_Witness ==
    /\ status = "running"
    /\ pc = 25
    /\ stdout # <<>>
    /\ stdout[1].label = "Coefficients:"

\* C10: predict leaves the model and the output as they are, and what is
\* printed is the model as fit left it.
C10_PredictHasNoEffect ==
    /\ [][(status = "running" /\ pc = 21) => (model' = model /\ stdout' = stdout)]_vars
    /\ [](status = "done" =>
            LET m == fit(fit_args[1].A, fit_args[1].b).val[1]
            IN  stdout = print("Coefficients:", array_str(m.coef_))
                           \o print("Intercept:", scalar_str(m.intercept_)))

C10_Witness ==
    /\ status = "done"
    /\ y_pred # None
    /\ \E i \in 1..Len(SampleRows) :
          y_pred[1][i] # RatInt(SampleRows[i]["name"].v)

====
